---- MODULE Spec2Model ----
(***************************************************************************)
(* A model of the 2channel-odds pipeline: the keyword grouper, the         *)
(* occurrence counter and the odds engine of odds_calculator.py, the       *)
(* fetch-with-fallback of scraper.py and the /analyze handler of app.py.   *)
(*                                                                         *)
(* Strings are sequences of one-character strings.  Real numbers are exact *)
(* rationals [num, den]; the payout rate is an integer percentage.         *)
(***************************************************************************)
EXTENDS Integers, Sequences, FiniteSets, TLC

VARIABLES
    pc,             \* position of the running function / handler
    keywords,       \* analyze_thread: the list of raw keyword specs
    posts,          \* analyze_thread: the list of post bodies
    payout_rate,    \* payout rate as an integer percentage
    keyword_groups, \* result of parse_keyword_groups
    counts,         \* result of count_keyword_groups (insertion-ordered dict)
    odds_results,   \* result of calculate_odds (insertion-ordered dict)
    sorted_results, \* analyze_thread: the ranked rows
    urls_raw,       \* analyze: the lines of the form field 'urls'
    keywords_raw,   \* analyze: the form field 'keywords'
    url_entries,    \* analyze: the parsed url lines
    idx,            \* analyze: 1-based place of the batch loop (0: not begun)
    all_posts,      \* analyze: the posts gathered so far
    thread_results, \* analyze: one status record per thread handled
    thread_posts,   \* scrape_thread: its local list 'posts'
    primary,        \* scrape_thread: how the primary attempt ended
    trace,          \* scrape_thread: its requests and sleeps, in order
    response        \* analyze: the response returned

calcVars == <<keywords, posts, payout_rate, keyword_groups, counts,
              odds_results, sorted_results>>

appVars == <<urls_raw, keywords_raw, url_entries, idx, all_posts,
             thread_results, thread_posts, primary, trace, response>>

vars == <<pc, calcVars, appVars>>

(***************************************************************************)
(* Bounds of the model.                                                    *)
(***************************************************************************)
MaxSpecLen == 3    \* longest raw keyword spec given to the grouper
MaxRawSpecs == 2   \* longest list of raw keyword specs given to the grouper
MaxSpecs == 3      \* analyze_thread: longest list of keyword specs
MaxPosts == 2      \* analyze_thread: longest list of posts
MaxGroups == 3     \* calculate_odds: most entries of a count mapping
MaxCount == 3      \* calculate_odds: largest count of one entry
MaxThreads == 2    \* analyze: most url lines of a request
MaxThreadPosts == 2 \* scrape_thread: most records of one fetched thread
MaxKwRawLen == 3   \* analyze: longest 'keywords' form field

(***************************************************************************)
(* Constants of the program.                                               *)
(***************************************************************************)
MinPayout == 10    \* app.py, line 107: 0.1, in percent
MaxPayout == 100   \* app.py, line 107: 1.0, in percent

\* the handler has not answered yet
NoResponse == [status |-> 0, error |-> "", analysis |-> <<>>]

(***************************************************************************)
(* Generic helpers.                                                        *)
(***************************************************************************)
\* all sequences over S of length at most n
SeqUpTo(S, n) == UNION {[1..k -> S] : k \in 0..n}

Whitespace == {" ", "\n"}

\* str.strip(): drop leading and trailing whitespace
RECURSIVE LStrip(_)
LStrip(s) ==
    IF s # <<>> /\ Head(s) \in Whitespace THEN LStrip(Tail(s)) ELSE s

RECURSIVE RStrip(_)
RStrip(s) ==
    IF s # <<>> /\ s[Len(s)] \in Whitespace
    THEN RStrip(SubSeq(s, 1, Len(s) - 1))
    ELSE s

Strip(s) == RStrip(LStrip(s))

\* str.split(sep) for a one-character separator: always at least one piece
RECURSIVE SplitFrom(_, _, _)
SplitFrom(s, sep, cur) ==
    IF s = <<>> THEN <<cur>>
    ELSE IF Head(s) = sep THEN <<cur>> \o SplitFrom(Tail(s), sep, <<>>)
    ELSE SplitFrom(Tail(s), sep, Append(cur, Head(s)))

Split(s, sep) == SplitFrom(s, sep, <<>>)

\* sep in s
Contains(s, c) == \E i \in 1..Len(s) : s[i] = c

\* a grouper that trims the pieces and forgets to discard the empty ones
StripKeepEmpty(xs) == [i \in 1..Len(xs) |-> Strip(xs[i])]

\* [f(x) for x in xs if x]  with f = strip, keeping the non-empty results
RECURSIVE StripNonEmpty(_)
StripNonEmpty(xs) ==
    IF xs = <<>> THEN <<>>
    ELSE (IF Strip(Head(xs)) # <<>> THEN <<Strip(Head(xs))>> ELSE <<>>)
         \o StripNonEmpty(Tail(xs))

(***************************************************************************)
(* odds_calculator.parse_keyword_groups                                    *)
(***************************************************************************)
\* the groups one spec contributes: zero or one
GroupsOfSpec(kw) ==
    IF Contains(kw, "|")
    THEN LET synonyms == StripNonEmpty(Split(kw, "|"))
         IN  IF synonyms # <<>>
             THEN <<[display |-> synonyms[1], synonyms |-> synonyms]>>
             ELSE <<>>
    ELSE <<[display |-> kw, synonyms |-> <<kw>>]>>

RECURSIVE parse_keyword_groups(_)
parse_keyword_groups(raw) ==
    IF raw = <<>> THEN <<>>
    ELSE GroupsOfSpec(Head(raw)) \o parse_keyword_groups(Tail(raw))

\* analyze_thread, line 149 (and a direct call of the grouper)
ParseKeywordGroups ==
    /\ pc = "start"
    /\ keyword_groups' = parse_keyword_groups(keywords)
    /\ pc' = "grouped"
    /\ UNCHANGED <<keywords, posts, payout_rate, counts, odds_results,
                   sorted_results, appVars>>

(***************************************************************************)
(* odds_calculator.count_keyword_groups                                    *)
(***************************************************************************)
\* str.lower() on the alphabet of the model
LowerChar(c) ==
    CASE c = "A" -> "a"
      [] c = "B" -> "b"
      [] c = "C" -> "c"
      [] OTHER -> c

Lower(s) == [i \in 1..Len(s) |-> LowerChar(s[i])]

\* the position of key k in an insertion-ordered dict (0: absent)
RECURSIVE IndexOfKey(_, _, _)
IndexOfKey(d, k, i) ==
    IF i > Len(d) THEN 0
    ELSE IF d[i].display = k THEN i
    ELSE IndexOfKey(d, k, i + 1)

\* {g['display']: 0 for g in keyword_groups}: a key that comes again keeps
\* its first place
RECURSIVE ZeroCounts(_, _)
ZeroCounts(groups, acc) ==
    IF groups = <<>> THEN acc
    ELSE ZeroCounts(Tail(groups),
                    IF IndexOfKey(acc, Head(groups).display, 1) # 0
                    THEN acc
                    ELSE Append(acc, [display |-> Head(groups).display,
                                      count |-> 0]))

\* list.insert for sorted(..., key=len, reverse=True): stable, so x goes
\* after every element at least as long
RECURSIVE InsertByLenDesc(_, _)
InsertByLenDesc(sorted, x) ==
    IF sorted = <<>> THEN <<x>>
    ELSE IF Len(Head(sorted)) >= Len(x)
         THEN <<Head(sorted)>> \o InsertByLenDesc(Tail(sorted), x)
         ELSE <<x>> \o sorted

RECURSIVE SortByLenDesc(_, _)
SortByLenDesc(xs, acc) ==
    IF xs = <<>> THEN acc
    ELSE SortByLenDesc(Tail(xs), InsertByLenDesc(acc, Head(xs)))

\* the escaped literal part matches text at offset pos (0-based)
RECURSIVE MatchAt(_, _, _)
MatchAt(part, text, pos) ==
    IF part = <<>> THEN TRUE
    ELSE IF pos + 1 > Len(text) THEN FALSE
    ELSE IF Head(part) # text[pos + 1] THEN FALSE
    ELSE MatchAt(Tail(part), text, pos + 1)

\* the alternation (p1|p2|...) matches at pos: the first alternative that does
RECURSIVE AltMatchAt(_, _, _)
AltMatchAt(parts, text, pos) ==
    IF parts = <<>> THEN FALSE
    ELSE IF MatchAt(Head(parts), text, pos) THEN TRUE
    ELSE AltMatchAt(Tail(parts), text, pos)

\* re.search(pattern, text) is not None: scan the offsets left to right
RECURSIVE SearchFrom(_, _, _)
SearchFrom(parts, text, pos) ==
    IF pos > Len(text) THEN FALSE
    ELSE IF AltMatchAt(parts, text, pos) THEN TRUE
    ELSE SearchFrom(parts, text, pos + 1)

re_search(parts, text) == SearchFrom(parts, text, 0)

\* post.lower(), line 65
PostLower(post) == Lower(post)

\* [re.escape(s.lower()) for s in synonyms_sorted], lines 57-61
PatternParts(group) ==
    LET synonyms_sorted == SortByLenDesc(group.synonyms, <<>>)
    IN  [i \in 1..Len(synonyms_sorted) |-> Lower(synonyms_sorted[i])]

\* counts[display] += n
IncrementBy(d, k, n) ==
    LET i == IndexOfKey(d, k, 1)
    IN  [d EXCEPT ![i].count = @ + n]

\* a counter that counts each synonym found in a post, not the post once
RECURSIVE CountPostsPerSynonym(_, _, _, _)
CountPostsPerSynonym(d, display, parts, ps) ==
    IF ps = <<>> THEN d
    ELSE CountPostsPerSynonym(
             IncrementBy(d, display,
                 Cardinality({i \in 1..Len(parts) :
                                re_search(<<parts[i]>>, Lower(Head(ps)))})),
             display, parts, Tail(ps))

\* counts[display] += 1
Increment(d, k) ==
    LET i == IndexOfKey(d, k, 1)
    IN  [d EXCEPT ![i].count = @ + 1]

\* the inner loop over the posts, lines 64-67
RECURSIVE CountPosts(_, _, _, _)
CountPosts(d, display, parts, ps) ==
    IF ps = <<>> THEN d
    ELSE CountPosts(IF re_search(parts, PostLower(Head(ps)))
                    THEN Increment(d, display)
                    ELSE d,
                    display, parts, Tail(ps))

\* the outer loop over the groups, lines 55-67
RECURSIVE CountGroups(_, _, _)
CountGroups(d, groups, ps) ==
    IF groups = <<>> THEN d
    ELSE CountGroups(CountPosts(d, Head(groups).display,
                                PatternParts(Head(groups)), ps),
                     Tail(groups), ps)

count_keyword_groups(ps, groups) ==
    CountGroups(ZeroCounts(groups, <<>>), groups, ps)

\* analyze_thread, line 152
CountKeywordGroups ==
    /\ pc = "grouped"
    /\ counts' = count_keyword_groups(posts, keyword_groups)
    /\ pc' = "counted"
    /\ UNCHANGED <<keywords, posts, payout_rate, keyword_groups,
                   odds_results, sorted_results, appVars>>

(***************************************************************************)
(* odds_calculator.calculate_odds                                          *)
(***************************************************************************)
RECURSIVE SumCounts(_)
SumCounts(d) ==
    IF d = <<>> THEN 0 ELSE Head(d).count + SumCounts(Tail(d))

\* exact rationals with a positive denominator
RatLess(a, b) == a.num * b.den < b.num * a.den
RatEq(a, b) == a.num * b.den = b.num * a.den
One == [num |-> 1, den |-> 1]

\* an engine without the floor at even money
FloorMissing(odds) == odds

\* max(odds, 1.0), line 120
FloorAtOne(odds) == IF RatLess(odds, One) THEN One ELSE odds

\* one entry of the result, lines 106-131; rate is the payout rate in percent
OddsRow(entry, total_count, rate) ==
    IF entry.count = 0
    THEN [keyword |-> entry.display, count |-> 0, odds_none |-> TRUE,
          odds |-> [num |-> 0, den |-> 1],
          probability |-> [num |-> 0, den |-> 1]]
    ELSE [keyword |-> entry.display, count |-> entry.count,
          odds_none |-> FALSE,
          odds |-> FloorAtOne([num |-> total_count * rate,
                               den |-> 100 * entry.count]),
          probability |-> IF total_count > 0
                          THEN [num |-> entry.count, den |-> total_count]
                          ELSE [num |-> 0, den |-> 1]]

calculate_odds(d, rate) ==
    LET total_count == SumCounts(d)
    IN  [i \in 1..Len(d) |-> OddsRow(d[i], total_count, rate)]

\* analyze_thread, line 155 (and a direct call of the engine)
CalculateOdds ==
    /\ pc = "counted"
    /\ odds_results' = calculate_odds(counts, payout_rate)
    /\ pc' = "odds"
    /\ UNCHANGED <<keywords, posts, payout_rate, keyword_groups, counts,
                   sorted_results, appVars>>

(***************************************************************************)
(* odds_calculator.analyze_thread: the ranking, lines 160-166              *)
(***************************************************************************)
\* key(a) < key(b) for key = (odds is None, odds if odds else inf)
KeyLess(a, b) ==
    \/ ~a.odds_none /\ b.odds_none
    \/ /\ ~a.odds_none
       /\ ~b.odds_none
       /\ RatLess(a.odds, b.odds)

\* an unstable ranking: x goes before the rows of equal key
RECURSIVE InsertBeforeEqual(_, _)
InsertBeforeEqual(sorted, x) ==
    IF sorted = <<>> THEN <<x>>
    ELSE IF ~KeyLess(Head(sorted), x)
         THEN <<x>> \o sorted
         ELSE <<Head(sorted)>> \o InsertBeforeEqual(Tail(sorted), x)

\* sorted() is stable: x goes after every row whose key is not larger
RECURSIVE InsertByKey(_, _)
InsertByKey(sorted, x) ==
    IF sorted = <<>> THEN <<x>>
    ELSE IF KeyLess(x, Head(sorted))
         THEN <<x>> \o sorted
         ELSE <<Head(sorted)>> \o InsertByKey(Tail(sorted), x)

RECURSIVE SortByKey(_, _)
SortByKey(xs, acc) ==
    IF xs = <<>> THEN acc
    ELSE SortByKey(Tail(xs), InsertByKey(acc, Head(xs)))

SortedResults(rows) == SortByKey(rows, <<>>)

SortResults ==
    /\ pc = "odds"
    /\ sorted_results' = SortedResults(odds_results)
    /\ pc' = "ranked"
    /\ UNCHANGED <<keywords, posts, payout_rate, keyword_groups, counts,
                   odds_results, appVars>>

\* analyze_thread as one call, lines 149-178
analyze_thread(ps, kws, rate) ==
    LET groups == parse_keyword_groups(kws)
        d == count_keyword_groups(ps, groups)
    IN  [results |-> SortedResults(calculate_odds(d, rate)),
         total_count |-> SumCounts(d),
         post_count |-> Len(ps),
         payout_rate |-> rate,
         keywords |-> kws]

(***************************************************************************)
(* The grouper alone, on every list of raw specs over a small alphabet.    *)
(***************************************************************************)
SpecChars == {"a", "|", " "}

InitGrouper ==
    /\ pc = "start"
    /\ \E n \in 0..MaxRawSpecs :
           keywords \in [1..n -> SeqUpTo(SpecChars, MaxSpecLen)]
    /\ posts = <<>>
    /\ payout_rate = 80
    /\ keyword_groups = <<>>
    /\ counts = <<>>
    /\ odds_results = <<>>
    /\ sorted_results = <<>>
    /\ urls_raw = <<>>
    /\ keywords_raw = <<>>
    /\ url_entries = <<>>
    /\ idx = 0
    /\ all_posts = <<>>
    /\ thread_results = <<>>
    /\ thread_posts = <<>>
    /\ primary = "none"
    /\ trace = <<>>
    /\ response = NoResponse

NextGrouper == ParseKeywordGroups

SpecGrouper == InitGrouper /\ [][NextGrouper]_vars

(***************************************************************************)
(* analyze_thread on lists of specs and posts drawn from small pools.      *)
(***************************************************************************)
KeywordPool ==
    { <<"a">>,
      <<"a", "b", "|", "a">>,
      <<"B", "|", "c">>,
      <<"a", "|", "c">>,
      <<"|">>,
      <<>> }

PostPool ==
    { <<"A", "b">>,
      <<"a", "a">>,
      <<"c", "a", "B">>,
      <<>> }

PayoutPool == {10, 80, 100}

InitAnalyze ==
    /\ pc = "start"
    /\ \E n \in 0..MaxSpecs : keywords \in [1..n -> KeywordPool]
    /\ \E n \in 0..MaxPosts : posts \in [1..n -> PostPool]
    /\ payout_rate \in PayoutPool
    /\ keyword_groups = <<>>
    /\ counts = <<>>
    /\ odds_results = <<>>
    /\ sorted_results = <<>>
    /\ urls_raw = <<>>
    /\ keywords_raw = <<>>
    /\ url_entries = <<>>
    /\ idx = 0
    /\ all_posts = <<>>
    /\ thread_results = <<>>
    /\ thread_posts = <<>>
    /\ primary = "none"
    /\ trace = <<>>
    /\ response = NoResponse

NextAnalyze ==
    \/ ParseKeywordGroups
    \/ CountKeywordGroups
    \/ CalculateOdds
    \/ SortResults

SpecAnalyze == InitAnalyze /\ [][NextAnalyze]_vars

(***************************************************************************)
(* calculate_odds and the ranking on every small count mapping.            *)
(***************************************************************************)
\* the i-th key of a count mapping: i letters
KeyName(i) == [j \in 1..i |-> "a"]

InitOdds ==
    /\ pc = "counted"
    /\ \E n \in 0..MaxGroups :
         \E c \in [1..n -> 0..MaxCount] :
           counts = [i \in 1..n |-> [display |-> KeyName(i), count |-> c[i]]]
    /\ payout_rate \in MinPayout..MaxPayout
    /\ keywords = <<>>
    /\ posts = <<>>
    /\ keyword_groups = <<>>
    /\ odds_results = <<>>
    /\ sorted_results = <<>>
    /\ urls_raw = <<>>
    /\ keywords_raw = <<>>
    /\ url_entries = <<>>
    /\ idx = 0
    /\ all_posts = <<>>
    /\ thread_results = <<>>
    /\ thread_posts = <<>>
    /\ primary = "none"
    /\ trace = <<>>
    /\ response = NoResponse

NextOdds ==
    \/ CalculateOdds
    \/ SortResults

SpecOdds == InitOdds /\ [][NextOdds]_vars

(***************************************************************************)
(* app.parse_url_line.  A line is blank, or holds a url and the numbers    *)
(* read from its range text: start (1 when absent) and end (<<>> is None). *)
(***************************************************************************)
\* lines 26-28 and 54-64: zero or one entry
parse_url_line(line) ==
    IF line.blank THEN <<>>
    ELSE LET start_num == IF line.start < 1 THEN 1 ELSE line.start
             end_num == IF line.end # <<>> /\ line.end[1] < start_num
                        THEN <<>>
                        ELSE line.end
         IN  <<[url |-> line.url, start |-> start_num, end |-> end_num]>>

\* app.analyze, lines 83-87
RECURSIVE ParseUrlLines(_)
ParseUrlLines(lines) ==
    IF lines = <<>> THEN <<>>
    ELSE parse_url_line(Head(lines)) \o ParseUrlLines(Tail(lines))

(***************************************************************************)
(* app.analyze: reading and validating the form, lines 76-108              *)
(***************************************************************************)
\* str.replace(a, b) for one-character strings
ReplaceChar(s, a, b) == [i \in 1..Len(s) |-> IF s[i] = a THEN b ELSE s[i]]

\* lines 97-101
FormKeywords(raw) == StripNonEmpty(Split(ReplaceChar(raw, "\n", ","), ","))

\* line 103
TooFewKeywords(kws) == Len(kws) < 2

\* line 107; the rate is float(form value) / 100, kept here in percent
PayoutInRange(rate) == MinPayout <= rate /\ rate <= MaxPayout

\* lines 90-108: the first check that fails ("" when none does)
ValidationError(entries, kw_raw, kws, rate) ==
    IF entries = <<>> THEN "no_urls"
    ELSE IF kw_raw = <<>> THEN "no_keywords"
    ELSE IF TooFewKeywords(kws) THEN "too_few_keywords"
    ELSE IF ~PayoutInRange(rate) THEN "payout_out_of_range"
    ELSE ""

HandleRequest ==
    /\ pc = "request"
    /\ LET entries == ParseUrlLines(urls_raw)
           kw_raw == Strip(keywords_raw)
           kws == FormKeywords(kw_raw)
           err == ValidationError(entries, kw_raw, kws, payout_rate)
       IN  /\ url_entries' = entries
           /\ keywords' = IF err \in {"no_urls", "no_keywords"}
                          THEN <<>>
                          ELSE kws
           /\ IF err = ""
              THEN /\ pc' = "loop"
                   /\ idx' = 1
                   /\ UNCHANGED response
              ELSE /\ pc' = "done"
                   /\ response' = [status |-> 400, error |-> err,
                                   analysis |-> <<>>]
                   /\ UNCHANGED idx
    /\ UNCHANGED <<posts, payout_rate, keyword_groups, counts, odds_results,
                   sorted_results, urls_raw, keywords_raw, all_posts,
                   thread_results, thread_posts, primary, trace>>

(***************************************************************************)
(* scraper.py.  A fetched .dat file is the list of its lines, each line    *)
(* given by its number of '<>'-separated fields; a fetched page is the     *)
(* list of the texts of the elements the selectors found.  A post is named *)
(* by its thread and its 1-based place in the thread.                      *)
(***************************************************************************)
MinFields == 4

\* parse_dat_content, lines 111-127
RECURSIVE ParseDatLines(_, _, _)
ParseDatLines(lines, thread, acc) ==
    IF lines = <<>> THEN acc
    ELSE ParseDatLines(Tail(lines), thread,
             IF Head(lines) >= MinFields
             THEN Append(acc, [thread |-> thread, ord |-> Len(acc) + 1])
             ELSE acc)

parse_dat_content(lines, thread) == ParseDatLines(lines, thread, <<>>)

\* parse_html_content, lines 146-165: the non-empty texts
RECURSIVE ParseHtmlTexts(_, _, _)
ParseHtmlTexts(texts, thread, acc) ==
    IF texts = <<>> THEN acc
    ELSE ParseHtmlTexts(Tail(texts), thread,
             IF Head(texts) # ""
             THEN Append(acc, [thread |-> thread, ord |-> Len(acc) + 1])
             ELSE acc)

parse_html_content(texts, thread) == ParseHtmlTexts(texts, thread, <<>>)

\* how requests.get and fetch_thread_dat can end, lines 69-78
PrimaryOutcomes ==
    {[kind |-> "fault", lines |-> <<>>], [kind |-> "non200", lines |-> <<>>]}
    \cup {[kind |-> "ok", lines |-> l] :
             l \in SeqUpTo({MinFields - 1, MinFields}, MaxThreadPosts)}

\* how requests.get and fetch_thread_html can end, lines 91-102
FallbackOutcomes ==
    {[kind |-> "fault", texts |-> <<>>], [kind |-> "non200", texts |-> <<>>]}
    \cup {[kind |-> "ok", texts |-> t] :
             t \in SeqUpTo({"", "text"}, MaxThreadPosts)}

\* parse_thread_url, lines 28-55: raises ValueError or returns the locator
UrlResolves(url) == url = "thread"

\* a fallback that is always taken
FallbackAlways(ps) == TRUE

\* scrape_thread, line 202
FallbackNeeded(ps) == ps = <<>>

(***************************************************************************)
(* app.analyze: the batch loop, lines 114-144                              *)
(***************************************************************************)
\* posts[slice_start:slice_end], lines 125-128
FilteredPosts(ps, entry) ==
    LET total_posts == Len(ps)
        slice_end == IF entry.end # <<>> THEN entry.end[1] ELSE total_posts
        last == IF slice_end < total_posts THEN slice_end ELSE total_posts
    IN  SubSeq(ps, entry.start, last)

\* a batch that stops at the first thread that fails
AbortAfterError(i, n) == n + 1

\* the loop goes on after the except clause, lines 138-144
NextIndexAfterError(i, n) == i + 1

\* scrape_thread raised: lines 138-144
ThreadFails(kind) ==
    /\ thread_results' = Append(thread_results,
           [url |-> url_entries[idx].url, status |-> "error",
            post_count |-> 0, total_posts |-> 0, error |-> kind])
    /\ idx' = NextIndexAfterError(idx, Len(url_entries))
    /\ pc' = "loop"
    /\ UNCHANGED all_posts

\* scrape_thread returned ps: scraper lines 210-214, app lines 121-137
ThreadSucceeds(ps) ==
    LET filtered_posts == FilteredPosts(ps, url_entries[idx])
    IN  /\ all_posts' = all_posts \o filtered_posts
        /\ thread_results' = Append(thread_results,
               [url |-> url_entries[idx].url, status |-> "success",
                post_count |-> Len(filtered_posts),
                total_posts |-> Len(ps), error |-> ""])
        /\ idx' = idx + 1
        /\ pc' = "loop"

\* the loop takes the next entry and scrape_thread resolves its url
ResolveThread ==
    /\ pc = "loop"
    /\ idx \in 1..Len(url_entries)
    /\ thread_posts' = <<>>
    /\ primary' = "none"
    /\ trace' = <<>>
    /\ IF UrlResolves(url_entries[idx].url)
       THEN /\ pc' = "primary"
            /\ UNCHANGED <<idx, all_posts, thread_results>>
       ELSE ThreadFails("InvalidURL")
    /\ UNCHANGED <<calcVars, urls_raw, keywords_raw, url_entries, response>>

\* the primary request and what follows it up to the next request
FetchPrimary ==
    /\ pc = "primary"
    /\ trace' = Append(trace, "primary")
    /\ \E out \in PrimaryOutcomes :
          IF out.kind = "fault"
          THEN \* requests.get raised: nothing in scraper.py catches it
               /\ primary' = "fault"
               /\ UNCHANGED thread_posts
               /\ ThreadFails("TransportFault")
          ELSE LET dat_content == out.lines
                   ps == IF out.kind = "ok" /\ dat_content # <<>>
                         THEN parse_dat_content(dat_content, idx)
                         ELSE <<>>
               IN  /\ primary' = IF out.kind = "non200" THEN "non200"
                                 ELSE IF ps = <<>> THEN "empty"
                                 ELSE "posts"
                   /\ thread_posts' = ps
                   /\ IF FallbackNeeded(ps)
                      THEN /\ pc' = "sleep"
                           /\ UNCHANGED <<idx, all_posts, thread_results>>
                      ELSE ThreadSucceeds(ps)
    /\ UNCHANGED <<calcVars, urls_raw, keywords_raw, url_entries, response>>

\* time.sleep(REQUEST_INTERVAL), line 203
Sleep ==
    /\ pc = "sleep"
    /\ trace' = Append(trace, "sleep")
    /\ pc' = "fallback"
    /\ UNCHANGED <<calcVars, urls_raw, keywords_raw, url_entries, idx,
                   all_posts, thread_results, thread_posts, primary,
                   response>>

\* the fallback request and the rest of scrape_thread, lines 204-214
FetchFallback ==
    /\ pc = "fallback"
    /\ trace' = Append(trace, "fallback")
    /\ \E out \in FallbackOutcomes :
          IF out.kind = "fault"
          THEN /\ UNCHANGED thread_posts
               /\ ThreadFails("TransportFault")
          ELSE IF out.kind = "non200"
          THEN /\ UNCHANGED thread_posts
               /\ ThreadFails("FetchError")
          ELSE LET ps == parse_html_content(out.texts, idx)
               IN  /\ thread_posts' = ps
                   /\ IF ps = <<>>
                      THEN ThreadFails("ExtractionError")
                      ELSE ThreadSucceeds(ps)
    /\ UNCHANGED <<calcVars, urls_raw, keywords_raw, url_entries, primary,
                   response>>

(***************************************************************************)
(* app.analyze: the response, lines 146-181                                *)
(***************************************************************************)
\* the text of a post: fixed by its place in the thread
PostBody(p) == IF p.ord % 2 = 1 THEN <<"A", "b">> ELSE <<"d">>

RECURSIVE SuccessCount(_)
SuccessCount(results) ==
    IF results = <<>> THEN 0
    ELSE (IF Head(results).status = "success" THEN 1 ELSE 0)
         + SuccessCount(Tail(results))

\* a handler that fails only when no thread succeeded
NoThreadSucceeded(ps, results) == SuccessCount(results) = 0

\* line 146
NothingToAnalyze(ps, results) == ps = <<>>

Respond ==
    /\ pc = "loop"
    /\ idx > Len(url_entries)
    /\ pc' = "done"
    /\ IF NothingToAnalyze(all_posts, thread_results)
       THEN response' = [status |-> 400, error |-> "no_posts",
                         analysis |-> <<>>]
       ELSE response' =
              [status |-> 200, error |-> "",
               analysis |->
                 [ranking |-> analyze_thread(
                                 [i \in 1..Len(all_posts) |->
                                     PostBody(all_posts[i])],
                                 keywords, payout_rate),
                  keyword_count |-> Len(keywords),
                  thread_count |-> Len(url_entries),
                  success_count |-> SuccessCount(thread_results),
                  threads |-> thread_results]]
    /\ UNCHANGED <<calcVars, urls_raw, keywords_raw, url_entries, idx,
                   all_posts, thread_results, thread_posts, primary, trace>>

NextApp ==
    \/ HandleRequest
    \/ ResolveThread
    \/ FetchPrimary
    \/ Sleep
    \/ FetchFallback
    \/ Respond

\* the state of a request as it arrives
Arrives ==
    /\ pc = "request"
    /\ keywords = <<>>
    /\ posts = <<>>
    /\ keyword_groups = <<>>
    /\ counts = <<>>
    /\ odds_results = <<>>
    /\ sorted_results = <<>>
    /\ url_entries = <<>>
    /\ idx = 0
    /\ all_posts = <<>>
    /\ thread_results = <<>>
    /\ thread_posts = <<>>
    /\ primary = "none"
    /\ trace = <<>>
    /\ response = NoResponse

(***************************************************************************)
(* Requests with every small list of url lines, the keywords fixed.        *)
(***************************************************************************)
RangePool ==
    { <<0, <<>>>>, <<2, <<>>>>, <<1, <<1>>>>, <<1, <<2>>>>, <<2, <<1>>>> }

LinePool ==
    {[blank |-> TRUE, url |-> "", start |-> 1, end |-> <<>>],
     [blank |-> FALSE, url |-> "not a thread", start |-> 1, end |-> <<>>]}
    \cup {[blank |-> FALSE, url |-> "thread", start |-> r[1], end |-> r[2]] :
             r \in RangePool}

InitBatch ==
    /\ Arrives
    /\ \E n \in 0..MaxThreads : urls_raw \in [1..n -> LinePool]
    /\ keywords_raw = <<"a", ",", "B", "|", "d">>
    /\ payout_rate = 80

SpecBatch == InitBatch /\ [][NextApp]_vars

(***************************************************************************)
(* Requests with every short keywords field, one url line.                 *)
(***************************************************************************)
KwRawChars == {"a", "|", ",", " ", "\n"}

PayoutInputs == {9, 10, 100, 101}

InitKeywords ==
    /\ Arrives
    /\ urls_raw = <<[blank |-> FALSE, url |-> "thread", start |-> 1,
                     end |-> <<>>]>>
    /\ keywords_raw \in SeqUpTo(KwRawChars, MaxKwRawLen)
    /\ payout_rate \in PayoutInputs

SpecKeywords == InitKeywords /\ [][NextApp]_vars

(***************************************************************************)
(* Properties of the calculator.                                           *)
(***************************************************************************)
\* s occurs in t as a contiguous substring
IsSubstring(s, t) ==
    \E i \in 1..(Len(t) + 1) : \E j \in (i - 1)..Len(t) : SubSeq(t, i, j) = s

DistinctDisplays ==
    \A i, j \in 1..Len(keyword_groups) :
        i # j => keyword_groups[i].display # keyword_groups[j].display

\* the synonyms of group g (as indices) that occur in post p, case-folded
SynonymsIn(g, p) ==
    {k \in 1..Len(g.synonyms) : IsSubstring(Lower(g.synonyms[k]), Lower(p))}

\* the posts (as indices) in which some synonym of g occurs
PostsWith(g) == {p \in 1..Len(posts) : SynonymsIn(g, posts[p]) # {}}

Counted == pc \in {"counted", "odds", "ranked"}

\* C1: with pairwise distinct display names, each group's count is the number
\* of posts whose lower-cased body contains at least one lower-cased synonym
\* of the group; a post adds 1 however many synonyms or repeats it holds.
C1_PostPresence ==
    (Counted /\ DistinctDisplays) =>
        /\ Len(counts) = Len(keyword_groups)
        /\ \A i \in 1..Len(keyword_groups) :
              /\ counts[i].display = keyword_groups[i].display
              /\ counts[i].count = Cardinality(PostsWith(keyword_groups[i]))

\* a single post holds a long synonym and a shorter one inside it, and the
\* group's count is 1
C1_Witness ==
    /\ pc = "counted"
    /\ DistinctDisplays
    /\ Len(posts) = 1
    /\ \E i \in 1..Len(keyword_groups) :
          LET g == keyword_groups[i]
          IN  /\ \E k, m \in SynonymsIn(g, posts[1]) :
                    /\ Len(g.synonyms[k]) < Len(g.synonyms[m])
                    /\ IsSubstring(g.synonyms[k], g.synonyms[m])
              /\ counts[i].count = 1

\* C2: the result has one row per surviving group, also when two specs give
\* the same display name, and every reported count lies in [0, postCount].
C2_RowPerGroup ==
    pc = "ranked" =>
        /\ Len(sorted_results) = Len(keyword_groups)
        /\ \A i \in 1..Len(sorted_results) :
              sorted_results[i].count \in 0..Len(posts)

\* the place at which the grouper first produced a display name
GroupIndex(display) ==
    CHOOSE i \in 1..Len(keyword_groups) :
        /\ keyword_groups[i].display = display
        /\ \A j \in 1..(i - 1) : keyword_groups[j].display # display

SameOdds(a, b) ==
    \/ a.odds_none /\ b.odds_none
    \/ ~a.odds_none /\ ~b.odds_none /\ RatEq(a.odds, b.odds)

\* C3: the ranking is ascending by odds, every row with undefined odds
\* (count 0, probability 0.0) comes after every row with defined odds, and
\* rows of equal odds keep the order in which the grouper produced them.
C3_Ranking ==
    pc = "ranked" =>
        /\ Len(sorted_results) = Len(odds_results)
        /\ \A r \in 1..Len(odds_results) :
              \E i \in 1..Len(sorted_results) :
                  sorted_results[i] = odds_results[r]
        /\ \A i \in 1..Len(sorted_results) :
              sorted_results[i].odds_none <=>
                  (sorted_results[i].count = 0
                   /\ sorted_results[i].probability.num = 0)
        /\ \A i, j \in 1..Len(sorted_results) :
              i < j =>
                LET a == sorted_results[i]
                    b == sorted_results[j]
                IN  /\ ~(a.odds_none /\ ~b.odds_none)
                    /\ (~a.odds_none /\ ~b.odds_none)
                           => ~RatLess(b.odds, a.odds)
                    /\ SameOdds(a, b)
                           => GroupIndex(a.keyword) < GroupIndex(b.keyword)

\* the ranking moved a row: two rows of equal defined odds, a row of
\* undefined odds that the grouper produced before them
C3_Witness ==
    /\ pc = "ranked"
    /\ sorted_results # odds_results
    /\ \E i, j, k \in 1..Len(sorted_results) :
          /\ i < j /\ j < k
          /\ ~sorted_results[i].odds_none
          /\ SameOdds(sorted_results[i], sorted_results[j])
          /\ sorted_results[k].odds_none
          /\ GroupIndex(sorted_results[k].keyword)
                 < GroupIndex(sorted_results[i].keyword)

\* C4: a group with count > 0 has odds max((totalCount * rate) / count, 1.0)
\* and probability count / totalCount, so its odds are never below 1.0.
C4_OddsFloor ==
    pc \in {"odds", "ranked"} =>
        /\ Len(odds_results) = Len(counts)
        /\ \A i \in 1..Len(counts) :
              LET c == counts[i].count
                  total == SumCounts(counts)
                  row == odds_results[i]
                  raw == [num |-> total * payout_rate, den |-> 100 * c]
              IN  c > 0 =>
                    /\ row.count = c
                    /\ ~row.odds_none
                    /\ ~RatLess(row.odds, One)
                    /\ ~RatLess(row.odds, raw)
                    /\ RatEq(row.odds, One) \/ RatEq(row.odds, raw)
                    /\ RatEq(row.probability, [num |-> c, den |-> total])

\* the floor acts: the raw odds of a counted group are below 1.0, and
\* another group's raw odds are above it
C4_Witness ==
    /\ pc = "odds"
    /\ \E i, j \in 1..Len(counts) :
          /\ counts[i].count > 0
          /\ SumCounts(counts) * payout_rate < 100 * counts[i].count
          /\ RatEq(odds_results[i].odds, One)
          /\ counts[j].count > 0
          /\ RatLess(One, odds_results[j].odds)

(***************************************************************************)
(* Properties of the grouper.                                              *)
(***************************************************************************)
Distinct(xs) == \A i, j \in 1..Len(xs) : i # j => xs[i] # xs[j]

\* the non-empty synonyms a spec reduces to: its trimmed non-empty pieces
NonEmptyPieces(kw) ==
    LET pieces == Split(kw, "|")
    IN  {i \in 1..Len(pieces) : Strip(pieces[i]) # <<>>}

\* C10: every group has a non-empty list of distinct, trimmed synonyms whose
\* first element is the display name; a spec that reduces to zero non-empty
\* synonyms produces no group; the surviving groups keep the specs' order.
C10_GroupInvariant ==
    pc = "grouped" =>
        /\ \A i \in 1..Len(keyword_groups) :
              LET g == keyword_groups[i]
              IN  /\ g.synonyms # <<>>
                  /\ g.display = g.synonyms[1]
                  /\ Distinct(g.synonyms)
                  /\ \A k \in 1..Len(g.synonyms) :
                        Strip(g.synonyms[k]) = g.synonyms[k]
        /\ Len(keyword_groups) =
              Cardinality({i \in 1..Len(keywords) :
                              NonEmptyPieces(keywords[i]) # {}})

\* a spec survives the grouper: it has no separator, or it has a character
\* that is neither the separator nor whitespace
Survives(kw) ==
    \/ ~Contains(kw, "|")
    \/ \E i \in 1..Len(kw) : kw[i] \notin (Whitespace \cup {"|"})

\* C10, amended: every group has a non-empty synonym list whose first element
\* is the display name; a spec with the separator gives trimmed, non-empty
\* synonyms (repeats are kept) and gives no group when none is left; a spec
\* without the separator gives the one synonym equal to the spec as it is
\* (not trimmed, possibly empty); the groups keep the order of their specs.
C10_GroupAmended ==
    pc = "grouped" =>
        LET surviving == SelectSeq(keywords, Survives)
        IN  /\ Len(keyword_groups) = Len(surviving)
            /\ \A i \in 1..Len(keyword_groups) :
                  LET g == keyword_groups[i]
                      kw == surviving[i]
                  IN  /\ g.synonyms # <<>>
                      /\ g.display = g.synonyms[1]
                      /\ IF Contains(kw, "|")
                         THEN \A k \in 1..Len(g.synonyms) :
                                 /\ g.synonyms[k] # <<>>
                                 /\ Strip(g.synonyms[k]) = g.synonyms[k]
                                 /\ ~Contains(g.synonyms[k], "|")
                                 /\ IsSubstring(g.synonyms[k], kw)
                         ELSE g.synonyms = <<kw>>

\* a spec was dropped, the spec after it survived with a repeated synonym
C10_Witness ==
    /\ pc = "grouped"
    /\ Len(keywords) = 2
    /\ ~Survives(keywords[1])
    /\ Len(keyword_groups) = 1
    /\ Len(keyword_groups[1].synonyms) = 2
    /\ ~Distinct(keyword_groups[1].synonyms)

(***************************************************************************)
(* Properties of scrape_thread and of the batch loop.                      *)
(***************************************************************************)
\* C5: a primary fetch that ends with a non-200 status or with a transport
\* fault raises nothing, and the fallback fetch of the thread is attempted.
C5_PrimaryFailureFallsBack ==
    primary \in {"non200", "fault"} =>
        \/ pc \in {"sleep", "fallback"}
        \/ Contains(trace, "fallback")

\* C6: the primary request comes first with no delay before it; the fallback
\* request is issued only if the primary attempt gave zero posts, and then
\* the delay lies between the two requests; if the primary attempt gave a
\* post, no fallback request is issued.
C6_FallbackOrder ==
    /\ trace \in {<<>>, <<"primary">>, <<"primary", "sleep">>,
                  <<"primary", "sleep", "fallback">>}
    /\ pc = "primary" => trace = <<>>
    /\ pc = "sleep" => trace = <<"primary">>
    /\ pc = "fallback" => trace = <<"primary", "sleep">>
    /\ (pc \in {"sleep", "fallback"} \/ Contains(trace, "fallback"))
           => primary \in {"non200", "empty"}
    /\ primary = "posts" => trace = <<"primary">> /\ thread_posts # <<>>
    /\ primary \in {"non200", "empty"} /\ ~Contains(trace, "fallback")
           => thread_posts = <<>>

\* the second thread of a request fell back after an empty primary attempt,
\* and succeeded
C6_Witness ==
    /\ Len(thread_results) = 2
    /\ thread_results[2].status = "success"
    /\ primary = "empty"
    /\ trace = <<"primary", "sleep", "fallback">>

AllThreadsFailed ==
    \A i \in 1..Len(thread_results) : thread_results[i].status = "error"

\* the request passed the boundary validation and was answered
AnsweredAfterValidation == pc = "done" /\ idx >= 1

\* C7: a validated request ends in a terminal failure only when every thread
\* failed; with at least one thread of status success it returns a ranking.
C7_FailureOnlyIfAllFail ==
    AnsweredAfterValidation =>
        /\ response.status # 200 => AllThreadsFailed
        /\ ~AllThreadsFailed => response.status = 200

\* no thread contributed a post
NoPostUsed ==
    \A i \in 1..Len(thread_results) :
        \/ thread_results[i].status = "error"
        \/ thread_results[i].post_count = 0

\* C7, amended: a validated request ends in a terminal failure exactly when
\* no post was gathered: every thread failed, or every thread that succeeded
\* had a range that took none of its posts; with at least one successful
\* thread that contributed a post it returns a ranking.
C7_FailureIffNoPosts ==
    AnsweredAfterValidation =>
        /\ response.status \in {200, 400}
        /\ response.status = 400 <=> NoPostUsed
        /\ response.status = 400 => response.error = "no_posts"
        /\ AllThreadsFailed => response.status = 400
        /\ response.status = 200 =>
              /\ response.analysis.success_count >= 1
              /\ Len(response.analysis.ranking.results)
                     = Len(ZeroCounts(parse_keyword_groups(keywords), <<>>))

\* a thread succeeded, its range took no post, and the request failed
C7_Witness ==
    /\ AnsweredAfterValidation
    /\ response.status = 400
    /\ \E i \in 1..Len(thread_results) :
          /\ thread_results[i].status = "success"
          /\ thread_results[i].total_posts >= 1
          /\ thread_results[i].post_count = 0

\* the posts thread i contributed, by its status record
UsedPosts(i) ==
    IF thread_results[i].status = "success"
    THEN [k \in 1..thread_results[i].post_count |->
             [thread |-> i, ord |-> url_entries[i].start + k - 1]]
    ELSE <<>>

RECURSIVE ConcatUsed(_)
ConcatUsed(n) == IF n = 0 THEN <<>> ELSE ConcatUsed(n - 1) \o UsedPosts(n)

RECURSIVE SumUsed(_)
SumUsed(n) ==
    IF n = 0 THEN 0
    ELSE SumUsed(n - 1)
         + (IF thread_results[n].status = "success"
            THEN thread_results[n].post_count
            ELSE 0)

\* C8: whatever the outcomes of the threads, the loop handles every thread,
\* records one status record per thread in input order, adds no post for a
\* failed thread, and the gathered posts are the posts used from the
\* successful threads, in order; postCount is the sum of their post counts.
C8_FailureIsolation ==
    idx >= 1 =>
        /\ idx <= Len(url_entries) + 1
        /\ Len(thread_results) = idx - 1
        /\ pc = "done" => Len(thread_results) = Len(url_entries)
        /\ \A i \in 1..Len(thread_results) :
              /\ thread_results[i].url = url_entries[i].url
              /\ thread_results[i].status \in {"success", "error"}
              /\ thread_results[i].status = "error"
                     => thread_results[i].post_count = 0
              /\ ~UrlResolves(url_entries[i].url)
                     => thread_results[i].status = "error"
        /\ all_posts = ConcatUsed(Len(thread_results))
        /\ Len(all_posts) = SumUsed(Len(thread_results))
        /\ response.status = 200 =>
              /\ response.analysis.ranking.post_count
                     = SumUsed(Len(thread_results))
              /\ response.analysis.threads = thread_results

\* a thread failed after its fetches, the thread after it succeeded with a
\* post, and the request was answered with a ranking
C8_Witness ==
    /\ pc = "done"
    /\ response.status = 200
    /\ Len(thread_results) = 2
    /\ thread_results[1].status = "error"
    /\ thread_results[1].error \in {"TransportFault", "FetchError",
                                     "ExtractionError"}
    /\ thread_results[2].status = "success"
    /\ thread_results[2].post_count >= 1

\* C9: a request whose keywords give fewer than two groups after grouping is
\* rejected before the core (the batch loop and analyze_thread) is invoked.
C9_RejectsFewGroups ==
    idx >= 1 => Len(parse_keyword_groups(keywords)) >= 2

====
